---- MODULE Spec2Model ----
(***************************************************************************)
(* Model of pkg/storage/local.go: the local-filesystem storage backend.   *)
(* Strings are sequences of one-character strings, so that Clean, Join,   *)
(* HasPrefix and the containment guard are computed character by          *)
(* character, as the Go code computes them.  The filesystem is a tree of  *)
(* directories and hard links to inodes.                                  *)
(***************************************************************************)
EXTENDS Integers, Sequences, FiniteSets, TLC

\* ------------------------------------------------------------------ bounds
MaxKeyLen == 6
MaxLen == 1
MaxBatch == 3
MaxOps == 3
MaxPutOps == 2
MaxBatchOps == 2

\* ------------------------------------------------------------- strings
Separator == "/"
Dot == <<".">>
DotDot == <<".", ".">>
Empty == <<>>

Last(s) == s[Len(s)]
Front(s) == SubSeq(s, 1, Len(s) - 1)

\* strings.HasPrefix
HasPrefix(s, p) == Len(p) <= Len(s) /\ SubSeq(s, 1, Len(p)) = p

\* index of the last separator of s[1..n], 0 when there is none
RECURSIVE LastSepIn(_, _)
LastSepIn(s, n) ==
  IF n = 0 THEN 0 ELSE IF s[n] = Separator THEN n ELSE LastSepIn(s, n - 1)

LastSep(s) == LastSepIn(s, Len(s))

\* index of the first separator of s at or after i, Len(s)+1 when there is none
RECURSIVE FirstSepFrom(_, _)
FirstSepFrom(s, i) ==
  IF i > Len(s) THEN i ELSE IF s[i] = Separator THEN i ELSE FirstSepFrom(s, i + 1)

FirstSep(s) == FirstSepFrom(s, 1)

\* the elements of s between separators, empty ones included
RECURSIVE Split(_)
Split(s) ==
  LET i == FirstSep(s)
  IN IF i > Len(s) THEN <<s>>
     ELSE <<SubSeq(s, 1, i - 1)>> \o Split(SubSeq(s, i + 1, Len(s)))

\* strings.Join(elems, "/")
RECURSIVE JoinSep(_)
JoinSep(elems) ==
  IF Len(elems) = 0 THEN Empty
  ELSE IF Len(elems) = 1 THEN elems[1]
  ELSE elems[1] \o <<Separator>> \o JoinSep(Tail(elems))

\* the element stack of filepath.Clean: empty and "." elements are dropped,
\* ".." backs up over a real element, is dropped at the root of a rooted
\* path and is kept at the front of a relative one
RECURSIVE CleanElems(_, _, _)
CleanElems(elems, rooted, out) ==
  IF Len(elems) = 0 THEN out
  ELSE LET e == Head(elems)
           rest == Tail(elems)
       IN IF e = Empty \/ e = Dot THEN CleanElems(rest, rooted, out)
          ELSE IF e = DotDot
            THEN IF Len(out) > 0 /\ Last(out) # DotDot
                   THEN CleanElems(rest, rooted, Front(out))
                 ELSE IF rooted THEN CleanElems(rest, rooted, out)
                 ELSE CleanElems(rest, rooted, Append(out, e))
          ELSE CleanElems(rest, rooted, Append(out, e))

\* filepath.Clean / path.Clean (Unix)
Clean(s) ==
  IF s = Empty THEN Dot
  ELSE LET rooted == s[1] = Separator
           out == CleanElems(Split(s), rooted, <<>>)
       IN IF rooted THEN <<Separator>> \o JoinSep(out)
          ELSE IF out = <<>> THEN Dot
          ELSE JoinSep(out)

\* filepath.Join / path.Join of two elements: empty elements are ignored,
\* the rest is joined with the separator and cleaned
Join(a, b) ==
  IF a # Empty THEN Clean(a \o <<Separator>> \o b)
  ELSE IF b # Empty THEN Clean(b)
  ELSE Empty

\* filepath.Dir
Dir(p) == Clean(SubSeq(p, 1, LastSep(p)))

\* filepath.Base
RECURSIVE Base(_)
Base(p) ==
  IF p = Empty THEN Dot
  ELSE IF Last(p) = Separator
    THEN (IF Len(p) = 1 THEN <<Separator>> ELSE Base(Front(p)))
  ELSE SubSeq(p, LastSep(p) + 1, Len(p))

\* filepath.Rel(prefix, p) for a clean p that is prefix or lies below it
Rel(prefix, p) ==
  IF p = prefix THEN Dot
  ELSE IF prefix = <<Separator>> THEN SubSeq(p, 2, Len(p))
  ELSE SubSeq(p, Len(prefix) + 2, Len(p))

\* ------------------------------------------------------ containment guard
PathEscape == [ok |-> FALSE, err |-> "PathEscape", path |-> Empty]

containedPath(basePath, key) ==
  LET joined == Clean(Join(basePath, key))
      base == Clean(basePath)
  IN IF ~HasPrefix(joined, base \o <<Separator>>) /\ joined # base
       THEN PathEscape
     ELSE [ok |-> TRUE, err |-> "nil", path |-> joined]

\* ------------------------------------------------------------ filesystem
\* Config.Path of the primary key space, the process's working directory and
\* the root directory
ConfigPath == <<"/", "b">>
Cwd == <<"/", "w">>
Root == <<Separator>>
ObjectDiskRoot == <<"/", "o">>

VARIABLES
  objectDiskPath,  \* Config.ObjectDiskPath: Empty or ObjectDiskRoot
  crossFS,         \* the object-disk tree is another filesystem (os.Link EXDEV)
  connected,       \* Connect has run
  fs,              \* [dirs, links, data]: directories, path -> inode, inode -> bytes
  cancelled,       \* ctx.Done() of the batch in progress is closed
  batch,           \* the deleteKeysBatchInternal loop in progress, or NoBatch
  last,            \* what the last completed operation returned
  put,             \* history: path -> bytes of the last successful PutFile there
  budget,          \* operations the run may still start
  pbase, pkey, pres \* containedPath's arguments and result (specification PathSpec)

vars == <<objectDiskPath, crossFS, connected, fs, cancelled, batch, last, put,
          budget, pbase, pkey, pres>>

\* the path a system call acts on: relative names are resolved from Cwd
Abs(p) == IF p[1] = Separator THEN Clean(p) ELSE Clean(Cwd \o <<Separator>> \o p)

\* the proper ancestors of an absolute clean path
ProperAncestors(a) ==
  IF a = Root THEN {}
  ELSE {Root} \cup {SubSeq(a, 1, i - 1) : i \in {j \in 2..Len(a) : a[j] = Separator}}

\* a or one of its ancestors
IsUnder(p, a) == p = a \/ a \in ProperAncestors(p)

\* what lstat finds at p: "file", "dir", "ENOENT" or "ENOTDIR"
Kind(F, p) ==
  IF p = Empty THEN "ENOENT"
  ELSE LET a == Abs(p)
       IN IF \E q \in ProperAncestors(a) : q \in DOMAIN F.links THEN "ENOTDIR"
          ELSE IF a \in F.dirs THEN "dir"
          ELSE IF a \in DOMAIN F.links THEN "file"
          ELSE "ENOENT"

Restrict(f, S) == [x \in S |-> f[x]]

\* drop the inodes no link names any more
Collect(F) ==
  [F EXCEPT !.data = Restrict(F.data, {F.links[q] : q \in DOMAIN F.links})]

NewInode(F) == CHOOSE n \in 1..(Cardinality(DOMAIN F.data) + 1) : n \notin DOMAIN F.data

\* info.Size(): the bytes of a file (a directory's size is the filesystem's
\* own; nothing below reads it)
NodeSize(F, p) ==
  LET a == Abs(p) IN IF a \in DOMAIN F.links THEN Len(F.data[F.links[a]]) ELSE 0

\* the bytes read from the file at p
Content(F, p) == F.data[F.links[Abs(p)]]

\* os.MkdirAll: nothing is created when p or an ancestor is a regular file
MkdirAll(F, p) ==
  LET a == Abs(p)
      chain == {a} \cup ProperAncestors(a)
  IN IF p = Empty THEN [fs |-> F, err |-> "ENOENT"]
     ELSE IF \E q \in chain : q \in DOMAIN F.links THEN [fs |-> F, err |-> "ENOTDIR"]
     ELSE [fs |-> [F EXCEPT !.dirs = @ \cup chain], err |-> "nil"]

\* os.Create: O_RDWR|O_CREATE|O_TRUNC. An existing file's inode is truncated,
\* whatever other links name it
Create(F, p) ==
  LET k == Kind(F, p)
      a == Abs(p)
  IN IF k = "dir" THEN [fs |-> F, err |-> "EISDIR"]
     ELSE IF k = "ENOTDIR" THEN [fs |-> F, err |-> "ENOTDIR"]
     ELSE IF k = "file"
       THEN [fs |-> [F EXCEPT !.data[F.links[a]] = Empty], err |-> "nil"]
     ELSE IF p = Empty \/ Dir(a) \notin F.dirs THEN [fs |-> F, err |-> "ENOENT"]
     ELSE LET n == NewInode(F)
          IN [fs |-> [F EXCEPT !.links = [q \in DOMAIN @ \cup {a} |->
                                            IF q = a THEN n ELSE @[q]],
                               !.data = [m \in DOMAIN @ \cup {n} |->
                                            IF m = n THEN Empty ELSE @[m]]],
              err |-> "nil"]

\* the bytes io.Copy writes to the open file at p
WriteFile(F, p, bytes) == [F EXCEPT !.data[F.links[Abs(p)]] = bytes]

\* unlink of the regular file at absolute path a
Unlink(F, a) == Collect([F EXCEPT !.links = Restrict(@, DOMAIN @ \ {a})])

\* os.Remove
Remove(F, p) ==
  LET k == Kind(F, p)
      a == Abs(p)
  IN IF k = "file" THEN [fs |-> Unlink(F, a), err |-> "nil"]
     ELSE IF k = "dir"
       THEN IF \E q \in F.dirs \cup DOMAIN F.links : a \in ProperAncestors(q)
              THEN [fs |-> F, err |-> "ENOTEMPTY"]
            ELSE [fs |-> [F EXCEPT !.dirs = @ \ {a}], err |-> "nil"]
     ELSE [fs |-> F, err |-> k]

\* os.RemoveAll (removeall_at.go): "" is a no-op, a path ending in "." is
\* EINVAL, a missing path is no error, a path below a regular file is ENOTDIR
RemoveAll(F, p) ==
  LET k == Kind(F, p)
      a == Abs(p)
  IN IF p = Empty THEN [fs |-> F, err |-> "nil"]
     ELSE IF p = Dot \/ (Len(p) >= 2 /\ SubSeq(p, Len(p) - 1, Len(p)) = <<Separator, ".">>)
       THEN [fs |-> F, err |-> "EINVAL"]
     ELSE IF k = "ENOENT" THEN [fs |-> F, err |-> "nil"]
     ELSE IF k = "ENOTDIR" THEN [fs |-> F, err |-> "ENOTDIR"]
     ELSE [fs |-> Collect([F EXCEPT
                     !.dirs = {q \in @ : ~IsUnder(q, a)},
                     !.links = Restrict(@, {q \in DOMAIN @ : ~IsUnder(q, a)})]),
           err |-> "nil"]

\* the filesystem a path lives on
Mount(a) == IF crossFS /\ IsUnder(a, ObjectDiskRoot) THEN "objdisk" ELSE "main"

\* os.Link
Link(F, src, dst) ==
  LET ks == Kind(F, src)
      kd == Kind(F, dst)
  IN IF ks \in {"ENOENT", "ENOTDIR"} THEN [fs |-> F, err |-> ks]
     ELSE IF ks = "dir" THEN [fs |-> F, err |-> "EPERM"]
     ELSE IF kd \in {"file", "dir"} THEN [fs |-> F, err |-> "EEXIST"]
     ELSE IF kd = "ENOTDIR" THEN [fs |-> F, err |-> "ENOTDIR"]
     ELSE IF dst = Empty \/ Dir(Abs(dst)) \notin F.dirs THEN [fs |-> F, err |-> "ENOENT"]
     ELSE IF Mount(Abs(src)) # Mount(Abs(dst)) THEN [fs |-> F, err |-> "EXDEV"]
     ELSE [fs |-> [F EXCEPT !.links = [q \in DOMAIN @ \cup {Abs(dst)} |->
                                         IF q = Abs(dst) THEN @[Abs(src)] ELSE @[q]]],
           err |-> "nil"]

\* ------------------------------------------------------------ operations
NoErr == "nil"

\* StatFileAbsolute: ENOENT becomes ErrNotFound, any other error is returned
StatFileAbsolute(F, key) ==
  LET k == Kind(F, key)
  IN IF k = "ENOENT" THEN [err |-> "ErrNotFound", name |-> Empty, size |-> 0]
     ELSE IF k = "ENOTDIR" THEN [err |-> "ENOTDIR", name |-> Empty, size |-> 0]
     ELSE [err |-> NoErr, name |-> Base(key), size |-> NodeSize(F, key)]

\* GetFileReaderAbsolute: os.Open, and what the caller then reads from it
GetFileReaderAbsolute(F, key) ==
  LET k == Kind(F, key)
  IN IF k \in {"ENOENT", "ENOTDIR"} THEN [err |-> k, bytes |-> Empty]
     ELSE IF k = "dir" THEN [err |-> NoErr, bytes |-> Empty]
     ELSE [err |-> NoErr, bytes |-> Content(F, key)]

\* a faulty PutFileAbsolute: the partial file is not removed when io.Copy fails
PutFileAbsoluteKeepsPartial(F, key, r) ==
  LET m == MkdirAll(F, Dir(key))
      c == Create(m.fs, key)
      w == WriteFile(c.fs, key, r.data)
  IN IF m.err # NoErr THEN [fs |-> F, err |-> "MkdirAll"]
     ELSE IF c.err # NoErr THEN [fs |-> m.fs, err |-> c.err]
     ELSE IF r.err THEN [fs |-> w, err |-> "ReadError"]
     ELSE [fs |-> w, err |-> NoErr]

\* PutFileAbsolute: r.data are the bytes the reader delivers, r.err whether it
\* then fails instead of ending
PutFileAbsolute(F, key, r) ==
  LET m == MkdirAll(F, Dir(key))
      c == Create(m.fs, key)
      w == WriteFile(c.fs, key, r.data)
  IN IF m.err # NoErr THEN [fs |-> F, err |-> "MkdirAll"]
     ELSE IF c.err # NoErr THEN [fs |-> m.fs, err |-> c.err]
     ELSE IF r.err THEN [fs |-> Remove(w, key).fs, err |-> "ReadError"]
     ELSE [fs |-> w, err |-> NoErr]

\* CopyObject: hardlink first, else open the source, create the destination
\* and copy. how tells which of the two ran (history).
CopyResult(F, srcSize, srcKey, dstKey, target, touched, err, n, how) ==
  [fs |-> F, target |-> target,
   out |-> [op |-> "CopyObject", key |-> srcKey, dstKey |-> dstKey,
            srcSize |-> srcSize, err |-> err, touched |-> touched, n |-> n,
            how |-> how]]

CopyObject(F, srcSize, srcKey, dstKey) ==
  LET dstPath == Join(objectDiskPath, dstKey)
      srcPath == Join(ConfigPath, srcKey)
      m == MkdirAll(F, Dir(dstPath))
      l == Link(m.fs, srcPath, dstPath)
      ks == Kind(m.fs, srcPath)
      c == Create(m.fs, dstPath)
      read == Content(c.fs, srcPath)
      all == {Dir(dstPath), srcPath, dstPath}
      R(G, touched, err, n, how) ==
        CopyResult(G, srcSize, srcKey, dstKey, dstPath, touched, err, n, how)
  IN IF m.err # NoErr THEN R(F, {Dir(dstPath)}, "MkdirAll", 0, "none")
     ELSE IF l.err = NoErr THEN R(l.fs, all, NoErr, srcSize, "link")
     ELSE IF ks \in {"ENOENT", "ENOTDIR"} THEN R(m.fs, all, ks, 0, "copy")
     ELSE IF c.err # NoErr THEN R(m.fs, all, c.err, 0, "copy")
     ELSE IF ks = "dir" THEN R(c.fs, all, "EISDIR", 0, "copy")
     ELSE R(WriteFile(c.fs, dstPath, read), all, NoErr, Len(read), "copy")

\* byte order of the characters of file names
Alphabet == <<".", "/", "a", "b", "d", "o", "w", "x">>
CharRank(c) == CHOOSE i \in 1..Len(Alphabet) : Alphabet[i] = c

RECURSIVE StrLess(_, _)
StrLess(a, b) ==
  IF b = Empty THEN FALSE
  ELSE IF a = Empty THEN TRUE
  ELSE IF a[1] = b[1] THEN StrLess(Tail(a), Tail(b))
  ELSE CharRank(a[1]) < CharRank(b[1])

\* the order filepath.Walk visits two paths in: a directory before its
\* entries, the entries of a directory by name
RECURSIVE ElemsLess(_, _)
ElemsLess(x, y) ==
  IF Len(y) = 0 THEN FALSE
  ELSE IF Len(x) = 0 THEN TRUE
  ELSE IF x[1] = y[1] THEN ElemsLess(Tail(x), Tail(y))
  ELSE StrLess(x[1], y[1])

RECURSIVE WalkOrder(_)
WalkOrder(S) ==
  IF S = {} THEN <<>>
  ELSE LET first == CHOOSE p \in S : \A q \in S \ {p} : ElemsLess(Split(p), Split(q))
       IN <<first>> \o WalkOrder(S \ {first})

\* the localFile values handed to process, in order
RECURSIVE Entries(_, _, _)
Entries(F, prefix, paths) ==
  IF Len(paths) = 0 THEN <<>>
  ELSE LET relName == Rel(prefix, Head(paths))
           rest == Entries(F, prefix, Tail(paths))
       IN IF relName = Dot THEN rest
          ELSE <<[name |-> relName, size |-> NodeSize(F, Head(paths))]>> \o rest

RECURSIVE DirEntries(_, _)
DirEntries(F, paths) ==
  IF Len(paths) = 0 THEN <<>>
  ELSE <<[name |-> Base(Head(paths)), size |-> NodeSize(F, Head(paths))]>>
         \o DirEntries(F, Tail(paths))

\* WalkAbsolute with a visitor that returns no error
WalkAbsolute(F, prefix, recursive) ==
  LET k == Kind(F, prefix)
      a == Abs(prefix)
      nodes == F.dirs \cup DOMAIN F.links
  IN IF k = "ENOENT" THEN [err |-> NoErr, entries |-> <<>>]
     ELSE IF k = "ENOTDIR" THEN [err |-> "ENOTDIR", entries |-> <<>>]
     ELSE IF recursive
       THEN [err |-> NoErr,
             entries |-> Entries(F, a, WalkOrder({q \in nodes : IsUnder(q, a)}))]
     ELSE IF k = "file" THEN [err |-> "ENOTDIR", entries |-> <<>>]
     ELSE [err |-> NoErr,
           entries |-> DirEntries(F, WalkOrder({q \in nodes : q # a /\ Dir(q) = a}))]

\* history: forget what was put at a and below it
Untrack(P, a) == Restrict(P, {q \in DOMAIN P : ~IsUnder(q, a)})
Track(P, a, bytes) == [q \in DOMAIN P \cup {a} |-> IF q = a THEN bytes ELSE P[q]]

\* ---------------------------------------------------------------- inputs
Ka == <<"a">>
Kda == <<"d", "/", "a">>
Kax == <<"a", "/", "x">>
Kbase == Empty
Kesc == <<".", ".", "/", "x">>
Keys == {Ka, Kda, Kbase, Kesc}
BatchKeys == {Ka, Kax, Kesc}

RECURSIVE SeqsUpTo(_, _)
SeqsUpTo(S, n) ==
  IF n = 0 THEN {<<>>}
  ELSE LET shorter == SeqsUpTo(S, n - 1)
       IN shorter \cup {Append(t, x) : t \in {u \in shorter : Len(u) = n - 1}, x \in S}

Bytes == {"x", "y"}
Contents == SeqsUpTo(Bytes, MaxLen)
Readers == [data : Contents, err : BOOLEAN]
KeyLists == SeqsUpTo(BatchKeys, MaxBatch)

NoBatch == [op |-> "none"]
NoResult == [op |-> "none"]

\* --------------------------------------------------------------- handlers
\* Each handler is the Go method of the same name: from the filesystem F and
\* the arguments to the filesystem it leaves and what it returns. touched are
\* the paths it handed to a system call, target the path it wrote or removed;
\* before (history) is what PutFile found at its path.
StatFile(F, key) ==
  LET cp == containedPath(ConfigPath, key)
      st == StatFileAbsolute(F, cp.path)
  IN IF ~cp.ok
       THEN [fs |-> F, target |-> Empty,
             out |-> [op |-> "StatFile", key |-> key, err |-> cp.err, touched |-> {}]]
     ELSE [fs |-> F, target |-> Empty,
           out |-> [op |-> "StatFile", key |-> key, err |-> st.err,
                    touched |-> {cp.path}, name |-> st.name, size |-> st.size]]

GetFileReader(F, key) ==
  LET cp == containedPath(ConfigPath, key)
      rd == GetFileReaderAbsolute(F, cp.path)
  IN IF ~cp.ok
       THEN [fs |-> F, target |-> Empty,
             out |-> [op |-> "GetFileReader", key |-> key, err |-> cp.err,
                      touched |-> {}]]
     ELSE [fs |-> F, target |-> Empty,
           out |-> [op |-> "GetFileReader", key |-> key, err |-> rd.err,
                    touched |-> {cp.path}, bytes |-> rd.bytes]]

\* GetFileReaderWithLocalPath returns GetFileReader(key)
GetFileReaderWithLocalPath(F, key) ==
  LET g == GetFileReader(F, key)
  IN [g EXCEPT !.out.op = "GetFileReaderWithLocalPath"]

PutFile(F, key, r) ==
  LET cp == containedPath(ConfigPath, key)
      pf == PutFileAbsolute(F, cp.path, r)
  IN IF ~cp.ok
       THEN [fs |-> F, target |-> Empty,
             out |-> [op |-> "PutFile", key |-> key, err |-> cp.err, touched |-> {}]]
     ELSE [fs |-> pf.fs, target |-> cp.path,
           out |-> [op |-> "PutFile", key |-> key, err |-> pf.err,
                    touched |-> {Dir(cp.path), cp.path}, data |-> r.data,
                    before |-> Kind(F, cp.path)]]

DeleteFrom(op, F, basePath, key) ==
  LET cp == containedPath(basePath, key)
      rm == RemoveAll(F, cp.path)
  IN IF ~cp.ok
       THEN [fs |-> F, target |-> Empty,
             out |-> [op |-> op, key |-> key, err |-> cp.err, touched |-> {}]]
     ELSE [fs |-> rm.fs, target |-> cp.path,
           out |-> [op |-> op, key |-> key, err |-> rm.err, touched |-> {cp.path}]]

DeleteFile(F, key) == DeleteFrom("DeleteFile", F, ConfigPath, key)

DeleteFileFromObjectDiskBackup(F, key) ==
  DeleteFrom("DeleteFileFromObjectDiskBackup", F, objectDiskPath, key)

\* Walk joins the key to Config.Path with path.Join and walks the result
Walk(F, remotePath, recursive) ==
  LET prefix == Join(ConfigPath, remotePath)
      w == WalkAbsolute(F, prefix, recursive)
  IN [fs |-> F, target |-> Empty,
      out |-> [op |-> "Walk", key |-> remotePath, recursive |-> recursive,
               err |-> w.err, touched |-> {prefix}, prefix |-> prefix,
               entries |-> w.entries]]

\* ---------------------------------------------------------------- actions
Idle == connected /\ batch = NoBatch /\ budget > 0

Connect ==
  /\ ~connected
  /\ \E m \in {MkdirAll(fs, ConfigPath)} :
       fs' = IF m.err # NoErr \/ objectDiskPath = Empty THEN m.fs
             ELSE MkdirAll(m.fs, objectDiskPath).fs
  /\ connected' = TRUE
  /\ UNCHANGED <<objectDiskPath, crossFS, cancelled, batch, last, put, budget,
                 pbase, pkey, pres>>

\* a handler h has run to its return: put forgets what the handler wrote over
\* or removed
Returns(h) ==
  /\ fs' = h.fs
  /\ last' = h.out
  /\ put' = IF h.target = Empty THEN put
            ELSE IF h.out.op = "PutFile" /\ h.out.err = NoErr
              THEN Track(put, Abs(h.target), h.out.data)
            ELSE Untrack(put, Abs(h.target))
  /\ budget' = budget - 1
  /\ UNCHANGED <<objectDiskPath, crossFS, connected, cancelled, batch,
                 pbase, pkey, pres>>

CallStatFile(key) == Idle /\ \E h \in {StatFile(fs, key)} : Returns(h)

CallGetFileReader(key) == Idle /\ \E h \in {GetFileReader(fs, key)} : Returns(h)

CallGetFileReaderWithLocalPath(key) ==
  Idle /\ \E h \in {GetFileReaderWithLocalPath(fs, key)} : Returns(h)

CallPutFile(key, r) == Idle /\ \E h \in {PutFile(fs, key, r)} : Returns(h)

CallDeleteFile(key) == Idle /\ \E h \in {DeleteFile(fs, key)} : Returns(h)

CallDeleteFileFromObjectDiskBackup(key) ==
  Idle /\ \E h \in {DeleteFileFromObjectDiskBackup(fs, key)} : Returns(h)

CallWalk(remotePath, recursive) ==
  Idle /\ \E h \in {Walk(fs, remotePath, recursive)} : Returns(h)

CallCopyObject(srcSize, srcKey, dstKey) ==
  Idle /\ \E h \in {CopyObject(fs, srcSize, srcKey, dstKey)} : Returns(h)

\* DeleteKeysBatch / DeleteKeysFromObjectDiskBackupBatch: an empty list returns
\* nil at once, any other enters deleteKeysBatchInternal's loop, and the call
\* has no result until it returns. outcomes is history: what happened to each
\* key the loop has processed
BatchStart(op, basePath, keys) ==
  /\ Idle
  /\ IF Len(keys) = 0
       THEN /\ last' = [op |-> op, keys |-> keys, base |-> basePath, err |-> NoErr,
                        failures |-> <<>>, deletedCount |-> 0, outcomes |-> <<>>]
            /\ UNCHANGED batch
     ELSE /\ batch' = [op |-> op, base |-> basePath, keys |-> keys, i |-> 1,
                       failures |-> <<>>, deletedCount |-> 0, outcomes |-> <<>>]
          /\ last' = NoResult
  /\ cancelled' = FALSE
  /\ budget' = budget - 1
  /\ UNCHANGED <<objectDiskPath, crossFS, connected, fs, put, pbase, pkey, pres>>

DeleteKeysBatch(keys) == BatchStart("DeleteKeysBatch", ConfigPath, keys)

DeleteKeysFromObjectDiskBackupBatch(keys) ==
  BatchStart("DeleteKeysFromObjectDiskBackupBatch", objectDiskPath, keys)

BatchResult(b, err) ==
  [op |-> b.op, keys |-> b.keys, base |-> b.base, err |-> err,
   failures |-> b.failures, deletedCount |-> b.deletedCount, outcomes |-> b.outcomes]

\* a faulty loop body: a key the guard rejects is skipped without being
\* appended to failures
processKeyDropsPathErr(F, b) ==
  LET key == b.keys[b.i]
      cp == containedPath(b.base, key)
      rm == RemoveAll(F, cp.path)
  IN IF ~cp.ok
       THEN [fs |-> F, target |-> Empty,
             batch |-> [b EXCEPT
                          !.outcomes = Append(@, [err |-> cp.err, kind |-> "none"]),
                          !.i = @ + 1]]
     ELSE IF rm.err # NoErr
       THEN [fs |-> rm.fs, target |-> cp.path,
             batch |-> [b EXCEPT
                          !.failures = Append(@, [Key |-> key, Err |-> rm.err]),
                          !.outcomes = Append(@, [err |-> rm.err, kind |-> Kind(F, cp.path)]),
                          !.i = @ + 1]]
     ELSE [fs |-> rm.fs, target |-> cp.path,
           batch |-> [b EXCEPT
                        !.deletedCount = @ + 1,
                        !.outcomes = Append(@, [err |-> NoErr, kind |-> Kind(F, cp.path)]),
                        !.i = @ + 1]]

\* the body of the loop after the select: the key is resolved and removed, a
\* failure of either is appended to failures, and the loop goes on
processKey(F, b) ==
  LET key == b.keys[b.i]
      cp == containedPath(b.base, key)
      rm == RemoveAll(F, cp.path)
  IN IF ~cp.ok
       THEN [fs |-> F, target |-> Empty,
             batch |-> [b EXCEPT
                          !.failures = Append(@, [Key |-> key, Err |-> cp.err]),
                          !.outcomes = Append(@, [err |-> cp.err, kind |-> "none"]),
                          !.i = @ + 1]]
     ELSE IF rm.err # NoErr
       THEN [fs |-> rm.fs, target |-> cp.path,
             batch |-> [b EXCEPT
                          !.failures = Append(@, [Key |-> key, Err |-> rm.err]),
                          !.outcomes = Append(@, [err |-> rm.err, kind |-> Kind(F, cp.path)]),
                          !.i = @ + 1]]
     ELSE [fs |-> rm.fs, target |-> cp.path,
           batch |-> [b EXCEPT
                        !.deletedCount = @ + 1,
                        !.outcomes = Append(@, [err |-> NoErr, kind |-> Kind(F, cp.path)]),
                        !.i = @ + 1]]

\* a faulty select: cancellation breaks out of the loop, so that recorded
\* failures are reported instead of the cancellation
ctxDoneBreaks(b) ==
  BatchResult(b, IF Len(b.failures) > 0 THEN "BatchDeleteError" ELSE "Canceled")

\* what the select on ctx.Done() returns when the context is cancelled
ctxDone(b) == BatchResult(b, "Canceled")

\* one iteration of the loop of deleteKeysBatchInternal: the select on
\* ctx.Done(), then the key
deleteKeysBatchInternal ==
  /\ batch # NoBatch
  /\ batch.i <= Len(batch.keys)
  /\ IF cancelled
       THEN /\ last' = ctxDone(batch)
            /\ batch' = NoBatch
            /\ UNCHANGED <<fs, put>>
     ELSE \E h \in {processKey(fs, batch)} :
            /\ batch' = h.batch
            /\ fs' = h.fs
            /\ put' = IF h.target = Empty THEN put ELSE Untrack(put, Abs(h.target))
            /\ UNCHANGED last
  /\ UNCHANGED <<objectDiskPath, crossFS, connected, cancelled, budget, pbase, pkey, pres>>

\* after the loop: a BatchDeleteError when failures were recorded, else nil
BatchReturn ==
  /\ batch # NoBatch
  /\ batch.i > Len(batch.keys)
  /\ last' = BatchResult(batch, IF Len(batch.failures) > 0 THEN "BatchDeleteError"
                                ELSE NoErr)
  /\ batch' = NoBatch
  /\ UNCHANGED <<objectDiskPath, crossFS, connected, fs, cancelled, put, budget,
                 pbase, pkey, pres>>

\* the caller cancels the context of the batch in progress
Cancel ==
  /\ batch # NoBatch
  /\ ~cancelled
  /\ cancelled' = TRUE
  /\ UNCHANGED <<objectDiskPath, crossFS, connected, fs, batch, last, put, budget,
                 pbase, pkey, pres>>

\* --------------------------------------------------------- specification
EmptyFS == [dirs |-> {Root, Cwd}, links |-> <<>>, data |-> <<>>]

Configured ==
  /\ objectDiskPath \in {Empty, ObjectDiskRoot}
  /\ crossFS \in (IF objectDiskPath = Empty THEN {FALSE} ELSE BOOLEAN)
  /\ connected = FALSE
  /\ fs = EmptyFS
  /\ cancelled = FALSE
  /\ batch = NoBatch
  /\ last = NoResult
  /\ put = <<>>
  /\ pbase = Empty
  /\ pkey = Empty
  /\ pres = NoResult

Init == Configured /\ budget = MaxOps

Next ==
  \/ Connect
  \/ \E key \in Keys : CallStatFile(key)
  \/ \E key \in Keys : CallGetFileReader(key)
  \/ \E key \in Keys : CallGetFileReaderWithLocalPath(key)
  \/ \E key \in Keys, r \in Readers : CallPutFile(key, r)
  \/ \E key \in Keys : CallDeleteFile(key)
  \/ \E key \in Keys : CallDeleteFileFromObjectDiskBackup(key)
  \/ \E key \in Keys, recursive \in BOOLEAN : CallWalk(key, recursive)
  \/ \E srcSize \in 0..MaxLen, srcKey \in Keys, dstKey \in Keys :
       CallCopyObject(srcSize, srcKey, dstKey)

Spec == Init /\ [][Next]_vars

\* the same operations, over runs short enough to explore with longer contents
PutInit == Configured /\ budget = MaxPutOps

PutSpec == PutInit /\ [][Next]_vars

\* batch deletion over the trees PutFile builds
BatchInit == Configured /\ crossFS = FALSE /\ budget = MaxBatchOps

BatchReaders == {[data |-> <<"x">>, err |-> FALSE]}

BatchNext ==
  \/ Connect
  \/ \E key \in BatchKeys, r \in BatchReaders : CallPutFile(key, r)
  \/ \E keys \in KeyLists : DeleteKeysBatch(keys)
  \/ \E keys \in KeyLists : DeleteKeysFromObjectDiskBackupBatch(keys)
  \/ deleteKeysBatchInternal
  \/ BatchReturn
  \/ Cancel

BatchSpec == BatchInit /\ [][BatchNext]_vars
\* containedPath alone, over every short key and a range of base paths
PathChars == {"/", ".", "a"}
KeyStrings == SeqsUpTo(PathChars, MaxKeyLen)
Bases == {Root, ConfigPath, <<"/", "b", "/">>, <<"b">>, Empty}

PathInit ==
  /\ pbase \in Bases
  /\ pkey \in KeyStrings
  /\ pres = NoResult
  /\ objectDiskPath = Empty
  /\ crossFS = FALSE
  /\ connected = FALSE
  /\ fs = EmptyFS
  /\ cancelled = FALSE
  /\ batch = NoBatch
  /\ last = NoResult
  /\ put = <<>>
  /\ budget = 0

Resolve ==
  /\ pres = NoResult
  /\ pres' = containedPath(pbase, pkey)
  /\ UNCHANGED <<objectDiskPath, crossFS, connected, fs, cancelled, batch, last,
                 put, budget, pbase, pkey>>

PathNext == Resolve

PathSpec == PathInit /\ [][PathNext]_vars

\* ================================================================ claims
\* What a key resolves to, element by element, and whether that lies in the
\* base: the elements of the base are a prefix of the elements of base/key and
\* what follows does not climb out with "..".
Rooted(base) == base # Empty /\ base[1] = Separator
BaseElems(base) == CleanElems(Split(base), Rooted(base), <<>>)
JoinedElems(base, key) == CleanElems(Split(base) \o Split(key), Rooted(base), <<>>)
Inside(base, key) ==
  LET B == BaseElems(base)
      J == JoinedElems(base, key)
  IN /\ Len(B) <= Len(J)
     /\ SubSeq(J, 1, Len(B)) = B
     /\ (Len(J) = Len(B) \/ J[Len(B) + 1] # DotDot)
Escapes(base, key) == ~Inside(base, key)
Resolved(base, key) ==
  LET J == JoinedElems(base, key)
  IN IF Rooted(base) THEN <<Separator>> \o JoinSep(J)
     ELSE IF J = <<>> THEN Dot
     ELSE JoinSep(J)

BatchOps == {"DeleteKeysBatch", "DeleteKeysFromObjectDiskBackupBatch"}
OpReturned == budget' < budget /\ last'.op # "none"
Blocked == last'.err = "PathEscape" /\ last'.touched = {} /\ fs' = fs

\* C1: every key-based operation given a key that resolves outside its base
\* fails with the path-escape error and neither changes nor reads the
\* filesystem; so does each such item of a batch delete.
C1_EscapeBlocked ==
  [][/\ OpReturned =>
          /\ (/\ last'.op \in {"StatFile", "GetFileReader", "GetFileReaderWithLocalPath",
                               "PutFile", "DeleteFile", "Walk", "CopyObject"}
              /\ Escapes(ConfigPath, last'.key)) => Blocked
          /\ (/\ last'.op = "DeleteFileFromObjectDiskBackup"
              /\ objectDiskPath # Empty
              /\ Escapes(objectDiskPath, last'.key)) => Blocked
          /\ (/\ last'.op = "CopyObject"
              /\ objectDiskPath # Empty
              /\ Escapes(objectDiskPath, last'.dstKey)) => Blocked
     /\ (/\ batch # NoBatch
         /\ batch' # NoBatch
         /\ batch'.i = batch.i + 1
         /\ batch.base # Empty
         /\ Escapes(batch.base, batch.keys[batch.i]))
          => /\ fs' = fs
             /\ Last(batch'.outcomes).err = "PathEscape"
             /\ Last(batch'.failures).Key = batch.keys[batch.i]]_vars

\* C2: for every base directory, a key that resolves to the base or below it
\* is accepted by containedPath, which returns the cleaned path of base/key.
C2_InsideAccepted ==
  (pres # NoResult /\ pbase # Empty /\ Inside(pbase, pkey))
    => (pres.ok /\ pres.path = Resolved(pbase, pkey))

\* the failures a batch must report: the keys whose outcome is an error, in
\* input order
RECURSIVE ExpectedFailures(_, _)
ExpectedFailures(keys, outcomes) ==
  IF Len(outcomes) = 0 THEN <<>>
  ELSE (IF Head(outcomes).err # NoErr
          THEN <<[Key |-> Head(keys), Err |-> Head(outcomes).err]>>
        ELSE <<>>) \o ExpectedFailures(Tail(keys), Tail(outcomes))

BatchReturned == batch = NoBatch /\ last.op \in BatchOps

\* C3: a batch delete that is not cancelled attempts every key in input order;
\* the keys that resolve inside the base and are removed without error are
\* gone when it returns, and it returns nil when no key failed and otherwise a
\* BatchDeleteError whose Failures are exactly the failed keys (path escape or
\* delete error), each once, in input order, with deleted + failed = keys.
C3_BatchReport ==
  (BatchReturned /\ last.err # "Canceled") =>
    /\ Len(last.outcomes) = Len(last.keys)
    /\ last.failures = ExpectedFailures(last.keys, last.outcomes)
    /\ last.deletedCount + Len(last.failures) = Len(last.keys)
    /\ last.err = (IF last.failures = <<>> THEN NoErr ELSE "BatchDeleteError")
    /\ \A i \in 1..Len(last.keys) :
         /\ last.base # Empty =>
              (last.outcomes[i].err = "PathEscape" <=> Escapes(last.base, last.keys[i]))
         /\ last.outcomes[i].err = NoErr =>
              Kind(fs, Join(last.base, last.keys[i])) = "ENOENT"

\* C3's case: [A, B, C] where only B escapes; A and C were there and are
\* deleted, the report lists only B.
C3_Witness ==
  /\ BatchReturned
  /\ last.err = "BatchDeleteError"
  /\ Len(last.keys) = 3
  /\ last.failures = <<[Key |-> last.keys[2], Err |-> "PathEscape"]>>
  /\ last.outcomes[1].kind \in {"file", "dir"}
  /\ last.outcomes[3].kind \in {"file", "dir"}
  /\ last.deletedCount = 2

\* C4: the cancellation is checked before each key: once it is observed the
\* batch resolves and deletes nothing more and returns the cancellation error,
\* never a BatchDeleteError, whatever failures were recorded; what was deleted
\* before stays deleted. No key is processed under a cancelled context.
C4_CancelPreempts ==
  [][/\ (batch # NoBatch /\ cancelled /\ batch.i <= Len(batch.keys)) =>
          /\ fs' = fs
          /\ batch' = NoBatch
          /\ last'.err = "Canceled"
          /\ last'.failures = batch.failures
          /\ Len(last'.outcomes) = batch.i - 1
          /\ \A i \in 1..Len(last'.outcomes) :
               last'.outcomes[i].err = NoErr =>
                 Kind(fs', Join(batch.base, batch.keys[i])) = "ENOENT"
     /\ (batch # NoBatch /\ batch' # NoBatch /\ batch'.i # batch.i) => ~cancelled]_vars

\* C4's case: cancelled after a failure was recorded and a file was deleted,
\* with keys left.
C4_Witness ==
  /\ BatchReturned
  /\ last.err = "Canceled"
  /\ Len(last.failures) >= 1
  /\ Len(last.outcomes) < Len(last.keys)
  /\ \E i \in 1..Len(last.outcomes) :
       last.outcomes[i].err = NoErr /\ last.outcomes[i].kind \in {"file", "dir"}

\* C5: when PutFile fails while streaming, no file is at the key when it
\* returns: StatFile on the key returns ErrNotFound, whether or not a file was
\* there before.
C5_NoPartialFile ==
  [][(OpReturned /\ last'.op = "PutFile" /\ last'.err = "ReadError") =>
       StatFile(fs', last'.key).out.err = "ErrNotFound"]_vars

\* C5's case: the reader failed after a byte was written over an existing file.
C5_Witness ==
  /\ last.op = "PutFile"
  /\ last.err = "ReadError"
  /\ last.before = "file"
  /\ Len(last.data) >= 1
  /\ StatFile(fs, last.key).out.err = "ErrNotFound"

\* C6: with an object-disk root configured, a key written by a successful
\* PutFile and not written or deleted since reads back exactly the bytes
\* written, and StatFile gives their number.
C6_RoundTrip ==
  \A q \in DOMAIN put :
    objectDiskPath # Empty =>
    /\ GetFileReaderAbsolute(fs, q) = [err |-> NoErr, bytes |-> put[q]]
    /\ StatFileAbsolute(fs, q).err = NoErr
    /\ StatFileAbsolute(fs, q).size = Len(put[q])

\* the names of a walk's entries
RECURSIVE Names(_)
Names(entries) ==
  IF Len(entries) = 0 THEN <<>> ELSE <<Head(entries).name>> \o Names(Tail(entries))

\* C7: a recursive Walk hands the visitor one entry per file below the prefix,
\* named by its path relative to the prefix, and nothing else.
C7_WalkFilesOnly ==
  (last.op = "Walk" /\ last.recursive /\ last.err = NoErr) =>
    LET names == Names(last.entries)
        files == {q \in DOMAIN fs.links : q # last.prefix /\ IsUnder(q, last.prefix)}
    IN /\ \A i, j \in 1..Len(names) : names[i] = names[j] => i = j
       /\ {names[i] : i \in 1..Len(names)} = {Rel(last.prefix, q) : q \in files}
       /\ \A i \in 1..Len(names) : names[i] # Dot

SrcPath == Join(ConfigPath, last'.key)
DstPath == Join(objectDiskPath, last'.dstKey)
CopyReturned == OpReturned /\ last'.op = "CopyObject"

\* C8: with an object-disk root configured, CopyObject of a source file of N
\* bytes (N the size the caller passes) that returns no error reports N bytes and leaves at the destination the
\* content the source had, by hardlink or by the fallback copy.
C8_CopyReportsSize ==
  [][(/\ CopyReturned
      /\ objectDiskPath # Empty
      /\ last'.err = NoErr
      /\ Kind(fs, SrcPath) = "file"
      /\ last'.srcSize = Len(Content(fs, SrcPath)))
       => /\ last'.n = Len(Content(fs, SrcPath))
          /\ Kind(fs', DstPath) = "file"
          /\ Content(fs', DstPath) = Content(fs, SrcPath)]_vars

\* C9: with an empty objectDiskPath the object-disk operations create, change
\* and delete nothing.
C9_NoObjectDisk ==
  [][/\ (/\ OpReturned
         /\ objectDiskPath = Empty
         /\ last'.op \in {"CopyObject", "DeleteFileFromObjectDiskBackup"}) => fs' = fs
     /\ (/\ batch # NoBatch
         /\ batch.op = "DeleteKeysFromObjectDiskBackupBatch"
         /\ objectDiskPath = Empty) => fs' = fs]_vars

\* C10: with an object-disk root configured, CopyObject leaves the source file
\* as it was.
C10_SourceUnchanged ==
  [][(CopyReturned /\ objectDiskPath # Empty /\ Kind(fs, SrcPath) = "file")
       => /\ Kind(fs', SrcPath) = "file"
          /\ Content(fs', SrcPath) = Content(fs, SrcPath)]_vars

====
